---- MODULE Spec2Model ----
(***************************************************************************)
(* Study-abroad label extraction (eduspark): the taxonomy, the prompt      *)
(* renderings, the response parser, the result validator, the TagExtractor *)
(* and the Streamlit recognise handler that drives them.                   *)
(*                                                                         *)
(* Python dicts are insertion ordered: a vocabulary is the sequence of its *)
(* keys.  A string with line breaks is a sequence of lines, a line is a    *)
(* sequence of atomic pieces.  A model response is a sequence of lexical   *)
(* tokens: the ```json marker, a bare ``` fence, whitespace, prose, or one *)
(* complete JSON document.                                                 *)
(***************************************************************************)
EXTENDS Naturals, Sequences, FiniteSets, TLC

VARIABLES
    data_dicts,   \* the loaded taxonomy: countries, degrees, majors
    api_key,      \* TRUE iff st.secrets holds a non-empty DASHSCOPE_API_KEY
    pc,           \* position of the run
    inp,          \* the inputs of the operation under way / last performed
    parsed,       \* what _parse_response returned
    validated,    \* what _validate_result returned (or the exception it raised)
    session,      \* st.session_state
    calls,        \* backend calls issued by the last operation, in order
    llmBuilt,     \* the last operation constructed a ChatOpenAI client
    ret,          \* what the last extraction handed to its caller
    notice,       \* the message the handler showed for the last click
    pool,         \* the handler's rendered variable pool (country/degree/major list)
    agent,        \* the TagExtractor create_ai_agent returned
    files,        \* the three dictionary files on disk: ok, missing or corrupt
    loaded        \* what load_data_dicts returned

vars == <<data_dicts, api_key, pc, inp, parsed, validated, session, calls,
          llmBuilt, ret, notice, pool, agent, files, loaded>>

----------------------------------------------------------------------------
(* Bounds *)

MaxLen == 5
MaxMajors == 2

----------------------------------------------------------------------------
(* JSON values as Python sees them after json.loads *)

EmptyMap == [k \in {} |-> 0]

\* A field value: t is the Python type, s its payload.
Null == [t |-> "null", s |-> ""]
Str(x) == [t |-> "str", s |-> x]
ListOf(x) == [t |-> "list", s |-> x]
Num(x) == [t |-> "num", s |-> x]
\* The marker of a key that is not in a dict.
Absent == [t |-> "absent", s |-> ""]

\* bool(v) of a field value
Truthy(v) ==
    CASE v.t = "null" -> FALSE
      [] v.t = "str" -> v.s # ""
      [] v.t = "num" -> v.s # "0"
      [] v.t = "list" -> v.s # ""
      [] OTHER -> FALSE

\* hash(v) succeeds
Hashable(v) == v.t # "list"

\* A decoded document: a dict (t = "obj", m its items) or anything else.
NoneDoc == [t |-> "null", s |-> "", m |-> EmptyMap]
Obj(m) == [t |-> "obj", s |-> "", m |-> m]
ListDoc == [t |-> "list", s |-> "x", m |-> EmptyMap]
StrDoc == [t |-> "str", s |-> "x", m |-> EmptyMap]

LabelKeys == {"country", "degree", "major", "sub_major"}

\* result.get(k)
Get(doc, k) == IF k \in DOMAIN doc.m THEN doc.m[k] ELSE Null

----------------------------------------------------------------------------
(* The taxonomy *)

Elems(seq) == {seq[i] : i \in 1..Len(seq)}
\* x in d, for a dict d given by its key sequence and a hashable x
InKeys(v, keys) == v.t = "str" /\ v.s \in Elems(keys)

MajorKeys(majors) == [i \in 1..Len(majors) |-> majors[i].name]
\* majors[name]['children'], as its key sequence
Children(majors, name) ==
    LET i == CHOOSE i \in 1..Len(majors) : majors[i].name = name
    IN majors[i].children

----------------------------------------------------------------------------
(* TagExtractor._validate_result *)

AllNull == [country |-> Null, degree |-> Null, major |-> Null, sub_major |-> Null,
            error |-> Absent]

Raised(e) == [exc |-> e, val |-> AllNull]
Returned(v) == [exc |-> "none", val |-> v]

\* `result.get(k) and result[k] in d`: the operand reaches the dict lookup
Looked(v) == Truthy(v)

validate_drop_containment(dd, result) ==
    LET c == Get(result, "country")
        d == Get(result, "degree")
        mj == Get(result, "major")
        sb == Get(result, "sub_major")
        allsubs == UNION {Elems(dd.majors[i].children) : i \in 1..Len(dd.majors)}
    IN Returned([country |-> IF InKeys(c, dd.countries) THEN c ELSE Null,
                 degree |-> IF InKeys(d, dd.degrees) THEN d ELSE Null,
                 major |-> IF InKeys(mj, MajorKeys(dd.majors)) THEN mj ELSE Null,
                 sub_major |-> IF sb.t = "str" /\ sb.s \in allsubs THEN sb ELSE Null,
                 error |-> IF "error" \in DOMAIN result.m THEN result.m["error"]
                           ELSE Absent])

validate_no_lookup(dd, result) ==
    IF result.t # "obj" THEN Raised("AttributeError")
    ELSE Returned([country |-> Get(result, "country"),
                   degree |-> Get(result, "degree"),
                   major |-> Get(result, "major"),
                   sub_major |-> Get(result, "sub_major"),
                   error |-> IF "error" \in DOMAIN result.m THEN result.m["error"]
                             ELSE Absent])

validate_result(dd, result) ==
    IF result.t # "obj" THEN Raised("AttributeError")
    ELSE
    LET c == Get(result, "country")
        d == Get(result, "degree")
        mj == Get(result, "major")
        sb == Get(result, "sub_major")
        majorOk == Looked(mj) /\ InKeys(mj, MajorKeys(dd.majors))
        subLooked == majorOk /\ Looked(sb)
        unhashable == \/ Looked(c) /\ ~Hashable(c)
                      \/ Looked(d) /\ ~Hashable(d)
                      \/ Looked(mj) /\ ~Hashable(mj)
                      \/ subLooked /\ ~Hashable(sb)
    IN IF unhashable THEN Raised("TypeError")
       ELSE Returned(
           [country |-> IF Looked(c) /\ InKeys(c, dd.countries) THEN c ELSE Null,
            degree |-> IF Looked(d) /\ InKeys(d, dd.degrees) THEN d ELSE Null,
            major |-> IF majorOk THEN mj ELSE Null,
            sub_major |-> IF subLooked /\ InKeys(sb, Children(dd.majors, mj.s))
                          THEN sb ELSE Null,
            error |-> IF "error" \in DOMAIN result.m THEN result.m["error"]
                      ELSE Absent])

----------------------------------------------------------------------------
(* TagExtractor._parse_response *)

Tok(k) == [k |-> k, j |-> NoneDoc]
OPEN == Tok("open")      \* ```json
FENCE == Tok("fence")    \* ```
WS == Tok("ws")          \* whitespace
TXT == Tok("txt")        \* prose that is no JSON
Json(doc) == [k |-> "json", j |-> doc]

\* "```" occurs at a token: the bare fence, or the first three characters of
\* the ```json marker.
HasTicks(tok) == tok.k \in {"fence", "open"}

RECURSIVE LStrip(_)
LStrip(s) == IF s # <<>> /\ Head(s).k = "ws" THEN LStrip(Tail(s)) ELSE s

RECURSIVE RStrip(_)
RStrip(s) ==
    IF s # <<>> /\ s[Len(s)].k = "ws" THEN RStrip(SubSeq(s, 1, Len(s) - 1)) ELSE s

\* str.strip(), and what \s* ... \s* leaves of a regex group
Strip(s) == RStrip(LStrip(s))

\* The places where r'```json\s*(.*?)\s*```' can match: a marker and a later fence.
FenceStarts(text) ==
    {i \in 1..Len(text) : text[i].k = "open" /\ \E j \in (i+1)..Len(text) : HasTicks(text[j])}

Least(S) == CHOOSE x \in S : \A y \in S : x <= y
Greatest(S) == CHOOSE x \in S : \A y \in S : x >= y

re_search_greedy(text) ==
    IF FenceStarts(text) = {} THEN [found |-> FALSE, group1 |-> <<>>]
    ELSE LET i == Least(FenceStarts(text))
             j == Greatest({j \in (i+1)..Len(text) : HasTicks(text[j])})
         IN [found |-> TRUE, group1 |-> Strip(SubSeq(text, i + 1, j - 1))]

\* re.search(...): the leftmost match, its group 1 lazy up to the first fence.
re_search(text) ==
    IF FenceStarts(text) = {} THEN [found |-> FALSE, group1 |-> <<>>]
    ELSE LET i == Least(FenceStarts(text))
             j == Least({j \in (i+1)..Len(text) : HasTicks(text[j])})
         IN [found |-> TRUE, group1 |-> Strip(SubSeq(text, i + 1, j - 1))]

\* json.loads(s): surrounding whitespace is skipped, exactly one document must remain.
json_loads(s) ==
    LET body == Strip(s)
    IN IF Len(body) = 1 /\ body[1].k = "json"
       THEN [ok |-> TRUE, doc |-> body[1].j]
       ELSE [ok |-> FALSE, doc |-> NoneDoc]

ParseErrorDoc ==
    Obj([k \in LabelKeys \cup {"error"} |->
            IF k = "error" THEN Str("JSONDecodeError") ELSE Null])

parse_response_silent(response_text) ==
    LET m == re_search(response_text)
        json_str == IF m.found THEN m.group1 ELSE Strip(response_text)
        r == json_loads(json_str)
    IN IF r.ok THEN r.doc ELSE Obj([k \in LabelKeys |-> Null])

parse_response(response_text) ==
    LET m == re_search(response_text)
        json_str == IF m.found THEN m.group1 ELSE Strip(response_text)
        r == json_loads(json_str)
    IN IF r.ok THEN r.doc ELSE ParseErrorDoc

----------------------------------------------------------------------------
(* Strings with line breaks: a text is a non-empty sequence of lines, a line
   a sequence of atomic pieces (a label, a separator, a paragraph, a
   placeholder). *)

EmptyText == << <<>> >>
Piece(p) == << <<p>> >>
NL == << <<>>, <<>> >>

\* a + b
Cat(a, b) == SubSeq(a, 1, Len(a) - 1) \o << a[Len(a)] \o b[1] >> \o Tail(b)

\* sep.join(items)
RECURSIVE Join(_, _)
Join(sep, items) ==
    IF items = <<>> THEN EmptyText
    ELSE IF Len(items) = 1 THEN items[1]
    ELSE Cat(Cat(items[1], sep), Join(sep, Tail(items)))

Pieces(keys) == [i \in 1..Len(keys) |-> Piece(keys[i])]

RECURSIVE Flatten(_)
Flatten(seqs) == IF seqs = <<>> THEN <<>> ELSE Head(seqs) \o Flatten(Tail(seqs))

----------------------------------------------------------------------------
(* utils/data_loader.py: load_data_dicts *)

\* files_to_load, in its order
VocabKeys == <<"countries", "majors", "degrees">>

\* A file is there and holds JSON ("ok"), is not there ("missing"), or is there
\* and cannot be read as JSON ("corrupt").
FileStates == {"ok", "missing", "corrupt"}
AllPresent == [k \in Elems(VocabKeys) |-> "ok"]

\* The return value: None, or a dict with the vocabularies under `keys`.
NoneLoaded == [none |-> TRUE, keys |-> {}]
Loaded(keys) == [none |-> FALSE, keys |-> keys]
LoadedAll == Loaded(Elems(VocabKeys))

\* A missing file is skipped with a warning; an unreadable one raises inside the
\* try block and the function returns None.
load_data_dicts(fs) ==
    IF \E k \in Elems(VocabKeys) : fs[k] = "corrupt" THEN NoneLoaded
    ELSE Loaded({k \in Elems(VocabKeys) : fs[k] = "ok"})

----------------------------------------------------------------------------
(* utils/data_loader.py: the vocabulary renderings *)

get_country_list(countries) == Join(Piece("SEP"), Pieces(countries))

get_degree_list(degrees) == Join(Piece("SEP"), Pieces(degrees))

\* one entry f"{first_level}", then one entry f"  - {second_level}" per child
get_major_list(majors) ==
    Join(NL, Flatten([i \in 1..Len(majors) |->
        << Piece(majors[i].name) >> \o
        [c \in 1..Len(majors[i].children) |->
            Cat(Piece("  - "), Piece(majors[i].children[c]))]]))

----------------------------------------------------------------------------
(* utils/ai_agent.py: create_default_prompt, create_ai_agent, extract *)

Lines(ps) == [i \in 1..Len(ps) |-> <<ps[i]>>]

\* The f-string of create_default_prompt around the three renderings.
create_default_prompt(dd) ==
    Join(NL, << Lines(<<"INTRO", "COUNTRY_HEAD">>),
                get_country_list(dd.countries),
                Lines(<<"DEGREE_HEAD">>),
                get_degree_list(dd.degrees),
                Lines(<<"MAJOR_HEAD">>),
                get_major_list(dd.majors),
                Lines(<<"RULES", "FORMAT_HEAD", "">>),
                Lines(<<"{", "JSON_KEYS", "}", "NOTES_CLOSEST_OPTION", "ANALYSE">>) >>)

\* bool(s) of a str or None held as a text
TruthyText(t) == t # EmptyText

NoAgent == [system_prompt |-> EmptyText, model |-> ""]

create_ai_agent_unchecked(model_name, dd, custom_prompt, key) ==
    [exc |-> "none", built |-> TRUE,
     agent |-> [system_prompt |-> IF TruthyText(custom_prompt) THEN custom_prompt
                                  ELSE create_default_prompt(dd),
                model |-> model_name]]

create_ai_agent_verbatim(model_name, dd, custom_prompt, key) ==
    IF ~key THEN [exc |-> "ValueError", built |-> FALSE, agent |-> NoAgent]
    ELSE [exc |-> "none", built |-> TRUE,
          agent |-> [system_prompt |-> custom_prompt, model |-> model_name]]

create_ai_agent(model_name, dd, custom_prompt, key) ==
    IF ~key THEN [exc |-> "ValueError", built |-> FALSE, agent |-> NoAgent]
    ELSE [exc |-> "none", built |-> TRUE,
          agent |-> [system_prompt |-> IF TruthyText(custom_prompt) THEN custom_prompt
                                       ELSE create_default_prompt(dd),
                     model |-> model_name]]

\* A backend round trip: the reply text, or a transport failure.
BackendFail == [ok |-> FALSE, text |-> <<>>]
Reply(text) == [ok |-> TRUE, text |-> text]

NoText == [some |-> FALSE, text |-> <<>>]
SomeText(t) == [some |-> TRUE, text |-> t]

\* The dict of the except branch of extract.
ErrorResult(msg) ==
    [country |-> Null, degree |-> Null, major |-> Null, sub_major |-> Null,
     error |-> Str(msg), raw |-> NoneDoc, full |-> NoText]

Messages(self, user_input) ==
    << [role |-> "system", content |-> self.system_prompt],
       [role |-> "user", content |-> Piece(user_input)] >>

\* What the caller of extract gets: a returned dict or a raised exception.
Gave(result) == [kind |-> "returned", exc |-> "", result |-> result]
Threw(e) == [kind |-> "raised", exc |-> e, result |-> ErrorResult(e)]
NoRet == [kind |-> "none", exc |-> "", result |-> ErrorResult("")]

\* Lines 165-171: validate raw_result and attach the two debug fields.
Validated(dd, raw_result, response_text) ==
    CHOOSE res \in
        {IF v.exc # "none" THEN ErrorResult(v.exc)
         ELSE [country |-> v.val.country, degree |-> v.val.degree,
               major |-> v.val.major, sub_major |-> v.val.sub_major,
               error |-> v.val.error, raw |-> raw_result,
               full |-> SomeText(response_text)] :
            v \in {validate_result(dd, raw_result)}} : TRUE

\* The body of the try block after the model has answered.
AfterReply(dd, response_text) ==
    CHOOSE res \in
        {Validated(dd, raw_result, response_text) :
            raw_result \in {parse_response(response_text)}} : TRUE

extract_propagating(self, dd, user_input, backend) ==
    [calls |-> << Messages(self, user_input) >>,
     ret |-> IF ~backend.ok THEN Threw("TransportError")
             ELSE Gave(AfterReply(dd, backend.text))]

extract_retrying(self, dd, user_input, backend) ==
    [calls |-> IF backend.ok /\ json_loads(backend.text).ok
               THEN << Messages(self, user_input) >>
               ELSE << Messages(self, user_input), Messages(self, user_input) >>,
     ret |-> Gave(IF ~backend.ok THEN ErrorResult("TransportError")
                  ELSE AfterReply(dd, backend.text))]

extract_narrow(self, dd, user_input, backend) ==
    [calls |-> << Messages(self, user_input) >>,
     ret |-> IF ~backend.ok THEN Gave(ErrorResult("TransportError"))
             ELSE IF validate_result(dd, parse_response(backend.text)).exc # "none"
             THEN Threw(validate_result(dd, parse_response(backend.text)).exc)
             ELSE Gave(AfterReply(dd, backend.text))]

extract(self, dd, user_input, backend) ==
    [calls |-> << Messages(self, user_input) >>,
     ret |-> Gave(IF ~backend.ok THEN ErrorResult("TransportError")
                  ELSE AfterReply(dd, backend.text))]

----------------------------------------------------------------------------
(* app.py: the prompt template, its substitution, the session *)

DEFAULT_PROMPT_TEMPLATE ==
    Lines(<<"INTRO", "COUNTRY_HEAD", "{country_list}", "DEGREE_HEAD", "{degree_list}",
            "MAJOR_HEAD", "{major_list}", "RULES", "FORMAT_HEAD",
            "{{", "JSON_KEYS", "}}", "NOTES_NEVER_NULL", "ANALYSE">>)

Placeholders == {"{country_list}", "{degree_list}", "{major_list}"}

\* any(x in prompt_to_use for x in [...])
HasPlaceholder(text) ==
    \E i \in 1..Len(text) : \E k \in 1..Len(text[i]) : text[i][k] \in Placeholders

\* The variable pool built by the handler before the prompt is formatted.
app_major_list(majors) ==
    Join(NL, [i \in 1..Len(majors) |->
        Cat(Cat(Piece(majors[i].name), Cat(NL, Piece("  - "))),
            Join(Cat(NL, Piece("  - ")), Pieces(majors[i].children)))])

VariablePool(dd) ==
    [country_list |-> Join(Piece("SEP"), Pieces(dd.countries)),
     degree_list |-> Join(Piece("SEP"), Pieces(dd.degrees)),
     major_list |-> app_major_list(dd.majors)]

\* str.format on one replacement field or literal piece
FormatPiece(p, kw) ==
    CASE p = "{country_list}" -> kw.country_list
      [] p = "{degree_list}" -> kw.degree_list
      [] p = "{major_list}" -> kw.major_list
      [] p = "{{" -> Piece("{")
      [] p = "}}" -> Piece("}")
      [] OTHER -> Piece(p)

RECURSIVE CatAll(_)
CatAll(texts) == IF texts = <<>> THEN EmptyText ELSE Cat(Head(texts), CatAll(Tail(texts)))

\* A lone brace is a ValueError, an unknown field a KeyError.
FormatError(text) ==
    IF \E i \in 1..Len(text) : \E k \in 1..Len(text[i]) : text[i][k] \in {"{", "}"}
    THEN "ValueError"
    ELSE IF \E i \in 1..Len(text) : \E k \in 1..Len(text[i]) : text[i][k] = "{other}"
    THEN "KeyError"
    ELSE "none"

\* prompt_to_use.format(country_list=..., degree_list=..., major_list=...)
Format(text, kw) ==
    Join(NL, [i \in 1..Len(text) |->
        CatAll([k \in 1..Len(text[i]) |-> FormatPiece(text[i][k], kw)])])

NoPool == [country_list |-> EmptyText, degree_list |-> EmptyText,
           major_list |-> EmptyText]

\* user_input.strip()
strip(u) == IF u = " " THEN "" ELSE u

AVAILABLE_MODELS == <<"deepseek-v3", "deepseek-r1", "qwen-plus", "qwen-max">>

NoSession ==
    [loaded |-> FALSE, custom_prompt |-> EmptyText, has_result |-> FALSE,
     last_result |-> ErrorResult(""), last_input |-> "",
     ai_country |-> "", ai_degree |-> "", ai_major |-> "", ai_sub_major |-> "",
     selected_model |-> ""]

\* main() reaches its widgets: lines 106-114 index the first key of every
\* vocabulary and the first child of the first major.
PageRenders(dd) ==
    /\ dd.countries # <<>>
    /\ dd.degrees # <<>>
    /\ dd.majors # <<>>
    /\ dd.majors[1].children # <<>>

\* session_state after the first run of main()
FirstLoad(dd) ==
    IF ~PageRenders(dd) THEN NoSession
    ELSE [loaded |-> TRUE, custom_prompt |-> DEFAULT_PROMPT_TEMPLATE,
          has_result |-> FALSE, last_result |-> ErrorResult(""), last_input |-> "",
          ai_country |-> dd.countries[1], ai_degree |-> dd.degrees[1],
          ai_major |-> dd.majors[1].name, ai_sub_major |-> dd.majors[1].children[1],
          selected_model |-> AVAILABLE_MODELS[1]]

\* Lines 157-169: the batch update of the dropdown keys; IndexError when the
\* recognised major has no child to fall back to.
UpdateDict(dd, ss, result) ==
    LET c == result.country
        d == result.degree
        mj == result.major
        sb == result.sub_major
        majorIn == InKeys(mj, MajorKeys(dd.majors))
        subs == IF majorIn THEN Children(dd.majors, mj.s) ELSE <<>>
        subIn == InKeys(sb, subs)
    IN IF majorIn /\ ~subIn /\ subs = <<>>
       THEN [exc |-> "IndexError", session |-> ss]
       ELSE [exc |-> "none",
             session |->
               [ss EXCEPT
                  !.ai_country = IF InKeys(c, dd.countries) THEN c.s ELSE @,
                  !.ai_degree = IF InKeys(d, dd.degrees) THEN d.s ELSE @,
                  !.ai_major = IF majorIn THEN mj.s ELSE @,
                  !.ai_sub_major = IF ~majorIn THEN @
                                   ELSE IF subIn THEN sb.s ELSE subs[1]]]

\* Lines 245-246, run at the end of every rerun.
DefaultIfEmpty(ss) ==
    [ss EXCEPT !.custom_prompt = IF TruthyText(@) THEN @ ELSE DEFAULT_PROMPT_TEMPLATE]

Store_merging(dd, ss, user_input, result) ==
    LET kept(k) == IF result[k] = Null /\ ss.has_result THEN ss.last_result[k]
                   ELSE result[k]
        merged == [result EXCEPT !.country = kept("country"), !.degree = kept("degree"),
                                 !.major = kept("major"), !.sub_major = kept("sub_major")]
    IN UpdateDict(dd, [ss EXCEPT !.has_result = TRUE, !.last_result = merged,
                                 !.last_input = user_input], result)

\* Lines 154-169: keep the result, then update the dropdown keys.
Store(dd, ss, user_input, result) ==
    UpdateDict(dd, [ss EXCEPT !.has_result = TRUE, !.last_result = result,
                              !.last_input = user_input], result)

\* Lines 153-173, given what extract_tags did (r).
AfterExtract(dd, ss, user_input, before, r) ==
    IF r.ret.kind # "returned" THEN [before EXCEPT !.calls = r.calls, !.ret = r.ret]
    ELSE CHOOSE done \in
        {[before EXCEPT !.calls = r.calls, !.ret = r.ret, !.session = upd.session,
                        !.notice = IF upd.exc = "none" THEN "ok" ELSE "err_exception"] :
            upd \in {Store(dd, ss, user_input, r.ret.result)}} : TRUE

\* Lines 148-173, given what create_ai_agent did (made).
AfterCreate(dd, ss, user_input, backend, before, made) ==
    IF made.exc # "none" THEN [before EXCEPT !.built = made.built]
    ELSE CHOOSE done \in
        {AfterExtract(dd, ss, user_input, [before EXCEPT !.built = made.built], r) :
            r \in {extract(made.agent, dd, user_input, backend)}} : TRUE

\* Lines 133-173: the try block, with the prompt the session holds.
Try(dd, key, ss, user_input, backend, kw) ==
    LET tried == [session |-> ss, calls |-> <<>>, built |-> FALSE, ret |-> NoRet,
                  pool |-> kw, prompt |-> EmptyText, notice |-> "err_exception"]
        chosen == ss.custom_prompt
    IN IF HasPlaceholder(chosen) /\ FormatError(chosen) # "none" THEN tried
       ELSE CHOOSE done \in
           {CHOOSE d \in
               {AfterCreate(dd, ss, user_input, backend,
                            [tried EXCEPT !.prompt = prompt_to_use], made) :
                  made \in {create_ai_agent(ss.selected_model, dd, prompt_to_use, key)}} :
               TRUE :
             prompt_to_use \in {IF HasPlaceholder(chosen) THEN Format(chosen, kw)
                                ELSE chosen}} : TRUE

Click_unstripped(dd, key, ss, user_input, backend) ==
    LET quiet == [session |-> ss, calls |-> <<>>, built |-> FALSE, ret |-> NoRet,
                  pool |-> NoPool, prompt |-> EmptyText, notice |-> "none"]
    IN IF user_input = "" THEN [quiet EXCEPT !.notice = "warn_input"]
       ELSE IF ~key THEN [quiet EXCEPT !.notice = "err_apikey"]
       ELSE CHOOSE done \in
           {Try(dd, key, ss, user_input, backend, kw) : kw \in {VariablePool(dd)}} : TRUE

\* Lines 124-173: what one click of the recognise button does.
Click(dd, key, ss, user_input, backend) ==
    LET quiet == [session |-> ss, calls |-> <<>>, built |-> FALSE, ret |-> NoRet,
                  pool |-> NoPool, prompt |-> EmptyText, notice |-> "none"]
    IN IF strip(user_input) = "" THEN [quiet EXCEPT !.notice = "warn_input"]
       ELSE IF ~key THEN [quiet EXCEPT !.notice = "err_apikey"]
       ELSE CHOOSE done \in
           {Try(dd, key, ss, user_input, backend, kw) : kw \in {VariablePool(dd)}} : TRUE

----------------------------------------------------------------------------
(* Inputs *)

Min(a, b) == IF a < b THEN a ELSE b

CountryKeys == <<"US", "UK">>
DegreeKeys == <<"MSc", "PhD">>
MajorNames == <<"Sci", "Biz", "Art">>
ChildLists == {<<>>, <<"CS">>, <<"CS", "Fin">>}

\* Taxonomies with the first n major names, each with any of the child lists.
MajorsOfSize(n) ==
    {[i \in 1..n |-> [name |-> MajorNames[i], children |-> ch[i]]] :
        ch \in [1..n -> ChildLists]}

Taxonomies ==
    {[countries |-> CountryKeys, degrees |-> DegreeKeys, majors |-> mj] :
        mj \in UNION {MajorsOfSize(n) : n \in 0..Min(MaxMajors, Len(MajorNames))}}

\* Candidate mappings a model can answer with: per key, absent or a value.
CountryVals == {Absent, Str("US"), Str("Mars"), ListOf("US")}
DegreeVals == {Null, Str("MSc"), Str("US"), Str(""), Num("1")}
MajorVals == {Absent, Null, Str("Sci"), Str("Biz"), Str("CS"), ListOf("Sci")}
SubMajorVals == {Absent, Str("CS"), Str("Fin"), Str("Sci"), ListOf("CS")}
ErrorVals == {Absent, Str("oops")}

\* The dict with the given items, keys mapped to Absent left out.
DictOf(c, d, mj, sb, e) ==
    LET all == [k \in LabelKeys \cup {"error"} |->
                   CASE k = "country" -> c [] k = "degree" -> d [] k = "major" -> mj
                     [] k = "sub_major" -> sb [] OTHER -> e]
    IN Obj([k \in {k \in DOMAIN all : all[k] # Absent} |-> all[k]])

Candidates ==
    {DictOf(c, d, mj, sb, e) :
        c \in CountryVals, d \in DegreeVals, mj \in MajorVals, sb \in SubMajorVals,
        e \in ErrorVals}

NonObjects == {ListDoc, StrDoc, NoneDoc}

\* The reply of the spec's fenced scenario: Sure! ```json {country, degree} ```
ExampleDoc == Obj([k \in {"country", "degree"} |->
                      IF k = "country" THEN Str("US") ELSE Str("MSc")])
ExampleText == <<TXT, WS, OPEN, WS, Json(ExampleDoc), WS, FENCE>>

ParseTokens == {OPEN, FENCE, WS, TXT, Json(ExampleDoc), Json(ListDoc)}

RECURSIVE SeqsUpTo(_, _)
SeqsUpTo(S, n) ==
    IF n = 0 THEN {<<>>}
    ELSE LET shorter == SeqsUpTo(S, n - 1)
         IN shorter \cup {Append(t, x) : t \in {u \in shorter : Len(u) = n - 1}, x \in S}

Texts == SeqsUpTo(ParseTokens, MaxLen) \cup {ExampleText}

ExtractReplies ==
    {<<Json(c)>> : c \in Candidates \cup NonObjects}
    \cup {ExampleText, <<TXT>>, <<>>, <<OPEN, Json(ListDoc), FENCE>>}

ExtractBackends == {BackendFail} \cup {Reply(t) : t \in ExtractReplies}

UserInputs == {"", " ", "utterance"}
VerbatimPrompt == Lines(<<"CUSTOM_INSTRUCTIONS">>)

NoInp == [text |-> <<>>, user_input |-> "", backend |-> BackendFail,
          custom_prompt |-> EmptyText, template |-> EmptyText]

Idle ==
    /\ parsed = NoneDoc
    /\ validated = Raised("")
    /\ session = NoSession
    /\ calls = <<>>
    /\ llmBuilt = FALSE
    /\ ret = NoRet
    /\ notice = "none"
    /\ pool = NoPool
    /\ agent = NoAgent
    /\ files = AllPresent
    /\ loaded = LoadedAll

----------------------------------------------------------------------------
(* The parser and the validator on every short response text *)

ParseTaxonomies ==
    {t \in Taxonomies : Len(t.majors) = Min(MaxMajors, Len(MajorNames))
                        /\ \A i \in 1..Len(t.majors) : t.majors[i].children = <<"CS">>}

InitParse ==
    /\ data_dicts \in ParseTaxonomies
    /\ api_key = TRUE
    /\ pc = "text"
    /\ inp \in {[NoInp EXCEPT !.text = t] : t \in Texts}
    /\ Idle

Parse ==
    /\ pc = "text"
    /\ parsed' = parse_response(inp.text)
    /\ pc' = "parsed"
    /\ UNCHANGED <<files, loaded, data_dicts, api_key, inp, validated, session, calls, llmBuilt,
                   ret, notice, pool, agent>>

Validate ==
    /\ pc = "parsed"
    /\ validated' = validate_result(data_dicts, parsed)
    /\ pc' = "validated"
    /\ UNCHANGED <<files, loaded, data_dicts, api_key, inp, parsed, session, calls, llmBuilt,
                   ret, notice, pool, agent>>

NextParse == Parse \/ Validate

SpecParse == InitParse /\ [][NextParse]_vars

----------------------------------------------------------------------------
(* The library entry points: create_ai_agent, then extract_tags *)

InitExtract ==
    /\ data_dicts \in Taxonomies
    /\ api_key \in BOOLEAN
    /\ pc = "create"
    /\ inp = NoInp
    /\ Idle

CreateAgent(custom_prompt) ==
    /\ pc = "create"
    /\ \E r \in {create_ai_agent(AVAILABLE_MODELS[1], data_dicts, custom_prompt,
                                    api_key)} :
          /\ llmBuilt' = r.built
          /\ agent' = r.agent
          /\ ret' = IF r.exc = "none" THEN NoRet ELSE Threw(r.exc)
          /\ pc' = IF r.exc = "none" THEN "agent" ELSE "failed"
    /\ inp' = [inp EXCEPT !.custom_prompt = custom_prompt]
    /\ UNCHANGED <<files, loaded, data_dicts, api_key, parsed, validated, session, calls, notice,
                   pool>>

\* extract_tags(agent, user_input), with the backend answering `backend`
ExtractTags(user_input, backend) ==
    /\ pc = "agent"
    /\ \E r \in {extract(agent, data_dicts, user_input, backend)} :
          /\ calls' = r.calls
          /\ ret' = r.ret
    /\ inp' = [inp EXCEPT !.user_input = user_input, !.backend = backend,
                          !.text = backend.text]
    /\ pc' = "done"
    /\ UNCHANGED <<files, loaded, data_dicts, api_key, parsed, validated, session, llmBuilt,
                   notice, pool, agent>>

NextExtract ==
    \/ \E cp \in {EmptyText, VerbatimPrompt} : CreateAgent(cp)
    \/ pc = "agent" /\ \E u \in {"", "utterance"}, b \in ExtractBackends : ExtractTags(u, b)

SpecExtract == InitExtract /\ [][NextExtract]_vars

----------------------------------------------------------------------------
(* The Streamlit session: reruns of main() and direct use of the library *)

AppTaxonomies ==
    {t \in Taxonomies :
        /\ Len(t.majors) = Min(MaxMajors, Len(MajorNames))
        /\ \A i \in 2..Len(t.majors) : Len(t.majors[i].children) <= 1}

\* One fully valid answer, one whose sub-major belongs to another major (or to
\* none), prose without JSON, and JSON that is no object.
ReplyValid == <<Json(DictOf(Str("UK"), Str("PhD"), Str("Sci"), Str("Fin"), Absent))>>
ReplyCross == <<Json(DictOf(Str("Mars"), Null, Str("Biz"), Str("Fin"), Absent))>>
AppReplies == {ReplyValid, ReplyCross, <<TXT>>, <<Json(ListDoc)>>}

Backends == {BackendFail} \cup {Reply(t) : t \in AppReplies}

\* A custom template with the three placeholders and, in single braces, a
\* sample of the JSON to answer with: str.format reads the sample as a field.
JsonSamplePrompt ==
    Lines(<<"CUSTOM_INSTRUCTIONS", "{country_list}", "{degree_list}", "{major_list}",
            "{other}">>)

SavedPrompts == {EmptyText, VerbatimPrompt, DEFAULT_PROMPT_TEMPLATE, JsonSamplePrompt}

Init ==
    /\ data_dicts \in AppTaxonomies
    /\ api_key \in BOOLEAN
    /\ pc = "page"
    /\ inp = NoInp
    /\ parsed = NoneDoc
    /\ validated = Raised("")
    /\ session = FirstLoad(data_dicts)
    /\ calls = <<>>
    /\ llmBuilt = FALSE
    /\ ret = NoRet
    /\ notice = "none"
    /\ pool = NoPool
    /\ agent = NoAgent
    /\ files = AllPresent
    /\ loaded = LoadedAll

\* A rerun with the recognise button pressed.
Recognize(user_input, backend) ==
    /\ session.loaded
    /\ \E c \in {Click(data_dicts, api_key, session, user_input, backend)} :
          /\ session' = DefaultIfEmpty(c.session)
          /\ calls' = c.calls
          /\ llmBuilt' = c.built
          /\ ret' = c.ret
          /\ notice' = c.notice
          /\ pool' = c.pool
          /\ inp' = [text |-> backend.text, user_input |-> user_input,
                     backend |-> backend, custom_prompt |-> c.prompt,
                     template |-> session.custom_prompt]
    /\ pc' = "recognize"
    /\ UNCHANGED <<files, loaded, data_dicts, api_key, parsed, validated, agent>>

\* A rerun with the save button pressed, `typed` in the prompt text area.
SavePrompt(typed) ==
    /\ session.loaded
    /\ session' = [DefaultIfEmpty(session) EXCEPT !.custom_prompt = typed]
    /\ calls' = <<>>
    /\ llmBuilt' = FALSE
    /\ ret' = NoRet
    /\ notice' = "saved"
    /\ pool' = NoPool
    /\ inp' = NoInp
    /\ pc' = "save"
    /\ UNCHANGED <<files, loaded, data_dicts, api_key, parsed, validated, agent>>

\* A rerun caused by any other widget (the text area, a dropdown): no button
\* branch runs, lines 245-246 do.
Rerun ==
    /\ session.loaded
    /\ session' = DefaultIfEmpty(session)
    /\ calls' = <<>>
    /\ llmBuilt' = FALSE
    /\ ret' = NoRet
    /\ notice' = "none"
    /\ pool' = NoPool
    /\ inp' = NoInp
    /\ pc' = "rerun"
    /\ UNCHANGED <<files, loaded, data_dicts, api_key, parsed, validated, agent>>

\* extract_tags(create_ai_agent(model, data_dicts, custom_prompt), user_input)
\* called directly, outside the page.
LibraryExtract(custom_prompt, user_input, backend) ==
    /\ \E made \in {create_ai_agent(AVAILABLE_MODELS[1], data_dicts, custom_prompt,
                                       api_key)} :
       \E r \in {extract(made.agent, data_dicts, user_input, backend)} :
          /\ llmBuilt' = made.built
          /\ calls' = IF made.exc = "none" THEN r.calls ELSE <<>>
          /\ ret' = IF made.exc = "none" THEN r.ret ELSE Threw(made.exc)
    /\ inp' = [text |-> backend.text, user_input |-> user_input,
               backend |-> backend, custom_prompt |-> custom_prompt,
               template |-> custom_prompt]
    /\ notice' = "none"
    /\ pool' = NoPool
    /\ pc' = "library"
    /\ UNCHANGED <<files, loaded, data_dicts, api_key, parsed, validated, session, agent>>

Next ==
    \/ \E u \in UserInputs, b \in Backends : Recognize(u, b)
    \/ \E t \in SavedPrompts : SavePrompt(t)
    \/ Rerun
    \/ \E b \in {BackendFail, Reply(ReplyValid)} :
          LibraryExtract(EmptyText, "utterance", b)

Spec == Init /\ [][Next]_vars

----------------------------------------------------------------------------
(* The validator on every candidate mapping and every taxonomy *)

InitValidate ==
    /\ data_dicts \in Taxonomies
    /\ api_key = TRUE
    /\ pc = "parsed"
    /\ inp = NoInp
    /\ parsed \in Candidates \cup NonObjects \cup {ParseErrorDoc}
    /\ validated = Raised("")
    /\ session = NoSession
    /\ calls = <<>>
    /\ llmBuilt = FALSE
    /\ ret = NoRet
    /\ notice = "none"
    /\ pool = NoPool
    /\ agent = NoAgent
    /\ files = AllPresent
    /\ loaded = LoadedAll

NextValidate == Validate

SpecValidate == InitValidate /\ [][NextValidate]_vars

----------------------------------------------------------------------------
(* Start-up: load_data_dicts, then the first run of main() *)

\* Lines 91-114 of main(), given what load_cached_data returned and the
\* taxonomy the files hold: the falsy check, then the three key lookups, then
\* the first-element lookups.
MainStart(ld, dd) ==
    IF ld.none \/ ld.keys = {} THEN [notice |-> "err_load", session |-> NoSession]
    ELSE IF ld.keys # Elems(VocabKeys)
    THEN [notice |-> "crash_KeyError", session |-> NoSession]
    ELSE IF ~PageRenders(dd) THEN [notice |-> "crash_IndexError", session |-> NoSession]
    ELSE [notice |-> "none", session |-> FirstLoad(dd)]

InitLoad ==
    /\ files \in [Elems(VocabKeys) -> FileStates]
    /\ loaded = NoneLoaded
    /\ data_dicts \in AppTaxonomies
    /\ api_key = TRUE
    /\ pc = "start"
    /\ inp = NoInp
    /\ parsed = NoneDoc
    /\ validated = Raised("")
    /\ session = NoSession
    /\ calls = <<>>
    /\ llmBuilt = FALSE
    /\ ret = NoRet
    /\ notice = "none"
    /\ pool = NoPool
    /\ agent = NoAgent

LoadData ==
    /\ pc = "start"
    /\ loaded' = load_data_dicts(files)
    /\ pc' = "loaded"
    /\ UNCHANGED <<files, data_dicts, api_key, inp, parsed, validated, session,
                   calls, llmBuilt, ret, notice, pool, agent>>

PageLoad ==
    /\ pc = "loaded"
    /\ \E r \in {MainStart(loaded, data_dicts)} :
          /\ session' = r.session
          /\ notice' = r.notice
    /\ pc' = "page"
    /\ UNCHANGED <<files, loaded, data_dicts, api_key, inp, parsed, validated,
                   calls, llmBuilt, ret, pool, agent>>

NextLoad == LoadData \/ PageLoad

SpecLoad == InitLoad /\ [][NextLoad]_vars

----------------------------------------------------------------------------
(* Claims *)

ValidatorReturned == pc = "validated" /\ validated.exc = "none"

\* The names a vocabulary holds, read off the taxonomy itself.
CountryNames == {data_dicts.countries[i] : i \in 1..Len(data_dicts.countries)}
DegreeNames == {data_dicts.degrees[i] : i \in 1..Len(data_dicts.degrees)}
MajorNamesOf == {data_dicts.majors[i].name : i \in 1..Len(data_dicts.majors)}
ChildNames(name) ==
    UNION {{data_dicts.majors[i].children[c] : c \in 1..Len(data_dicts.majors[i].children)} :
              i \in {i \in 1..Len(data_dicts.majors) : data_dicts.majors[i].name = name}}

IsNameIn(v, names) == v.t = "str" /\ v.s \in names

\* C1: every non-null label field of a result returned by _validate_result is an
\* exact key of the matching vocabulary: country of countries, degree of degrees,
\* major of majors; no other value ever appears in a label field.
C1_LabelsAreTaxonomyKeys ==
    ValidatorReturned =>
        /\ validated.val.country = Null \/ IsNameIn(validated.val.country, CountryNames)
        /\ validated.val.degree = Null \/ IsNameIn(validated.val.degree, DegreeNames)
        /\ validated.val.major = Null \/ IsNameIn(validated.val.major, MajorNamesOf)

\* A result that keeps two labels and drops a degree that is a country's name.
C1_Witness ==
    /\ ValidatorReturned
    /\ validated.val.country = Str("US")
    /\ validated.val.major = Str("Sci")
    /\ Get(parsed, "degree") = Str("US")
    /\ validated.val.degree = Null

\* The candidate names a valid major and a sub-major that is a child of some
\* other major only.
CrossCategory ==
    /\ parsed.t = "obj"
    /\ IsNameIn(Get(parsed, "major"), MajorNamesOf)
    /\ Get(parsed, "sub_major").t = "str"
    /\ Get(parsed, "sub_major").s \notin ChildNames(Get(parsed, "major").s)
    /\ \E other \in MajorNamesOf : Get(parsed, "sub_major").s \in ChildNames(other)

\* C2: in every returned result a non-null sub_major comes with a non-null major
\* and is a child of that major; a sub_major that is a child of another major
\* only is dropped to null while the valid major is kept.
C2_SubMajorContained ==
    ValidatorReturned =>
        /\ validated.val.sub_major # Null =>
              /\ validated.val.major # Null
              /\ IsNameIn(validated.val.sub_major, ChildNames(validated.val.major.s))
        /\ CrossCategory =>
              /\ validated.val.major = Get(parsed, "major")
              /\ validated.val.sub_major = Null

C2_Witness ==
    /\ ValidatorReturned
    /\ CrossCategory
    /\ validated.val.major = Str("Biz")
    /\ validated.val.sub_major = Null
    /\ Get(parsed, "sub_major") = Str("Fin")

\* No token of the text is a JSON document.
NoJson(text) == \A i \in 1..Len(text) : text[i].k # "json"

IsDiagnostic(v) == v.t = "str" /\ v.s # ""

\* C3: for a response text without valid JSON _parse_response returns (does not
\* raise) a mapping with the four labels null and a non-empty error, and
\* _validate_result carries that error through with the four labels null.
C3_NonJsonGivesErrorResult ==
    NoJson(inp.text) =>
        /\ pc \in {"parsed", "validated"} =>
              /\ parsed.t = "obj"
              /\ DOMAIN parsed.m = LabelKeys \cup {"error"}
              /\ \A k \in LabelKeys : parsed.m[k] = Null
              /\ IsDiagnostic(parsed.m["error"])
        /\ pc = "validated" =>
              /\ validated.exc = "none"
              /\ validated.val.country = Null /\ validated.val.degree = Null
              /\ validated.val.major = Null /\ validated.val.sub_major = Null
              /\ validated.val.error = parsed.m["error"]

\* "I am not sure.": prose only, parsed and validated.
C3_Witness ==
    /\ pc = "validated"
    /\ inp.text = <<TXT>>
    /\ validated.val.error = Str("JSONDecodeError")

\* The fenced blocks of a text: a marker, the next ``` after it.
Blocks(text) ==
    {b \in (1..Len(text)) \X (1..Len(text)) :
        /\ b[1] < b[2]
        /\ text[b[1]].k = "open"
        /\ text[b[2]].k \in {"fence", "open"}
        /\ \A m \in (b[1]+1)..(b[2]-1) : text[m].k \notin {"fence", "open"}}

FirstBlock(text) == CHOOSE b \in Blocks(text) : \A o \in Blocks(text) : b[1] <= o[1]

NotWs(tok) == tok.k # "ws"

\* What parsing a piece of text as JSON gives: its document when, whitespace
\* apart, it is exactly one document; the decode-failure mapping otherwise.
Decoded(piece) ==
    LET solid == SelectSeq(piece, NotWs)
    IN IF Len(solid) = 1 /\ solid[1].k = "json" THEN solid[1].j ELSE ParseErrorDoc

\* C9: when the text holds a ```json block, the interior of the first block is
\* what is parsed and the text around it is ignored; only without a block is the
\* whole trimmed text parsed; Sure! ```json {country, degree} ``` gives that mapping.
C9_TwoStageParse ==
    pc \in {"parsed", "validated"} =>
        /\ Blocks(inp.text) # {} =>
              parsed = Decoded(SubSeq(inp.text, FirstBlock(inp.text)[1] + 1,
                                      FirstBlock(inp.text)[2] - 1))
        /\ Blocks(inp.text) = {} => parsed = Decoded(inp.text)
        /\ inp.text = ExampleText => parsed = ExampleDoc

\* A block between prose and a second fence: only the block's interior counts.
C9_Witness ==
    /\ pc = "parsed"
    /\ inp.text = <<TXT, OPEN, Json(ExampleDoc), FENCE, FENCE>>
    /\ parsed = ExampleDoc

\* extract has returned after the model answered with one bare JSON document.
AnsweredJson ==
    /\ pc = "done"
    /\ inp.backend.ok
    /\ Len(inp.text) = 1
    /\ inp.text[1].k = "json"

AnswerDoc == inp.text[1].j

\* Every value the document gives a label key is a string, a number or null.
PlainValues(doc) == \A k \in DOMAIN doc.m : doc.m[k].t \in {"str", "num", "null"}

\* JSON of the wrong shape: no object, or an object lacking label keys.
WrongShape(doc) == doc.t # "obj" \/ ~(LabelKeys \subseteq DOMAIN doc.m)

CandidateIsValid(doc, k) ==
    /\ k \in DOMAIN doc.m
    /\ CASE k = "country" -> IsNameIn(doc.m[k], CountryNames)
         [] k = "degree" -> IsNameIn(doc.m[k], DegreeNames)
         [] k = "major" -> IsNameIn(doc.m[k], MajorNamesOf)
         [] OTHER -> /\ "major" \in DOMAIN doc.m
                     /\ IsNameIn(doc.m["major"], MajorNamesOf)
                     /\ IsNameIn(doc.m[k], ChildNames(doc.m["major"].s))

\* C4: JSON of the wrong shape (not an object, or an object without some of the
\* four keys) is treated permissively: the missing keys come out null, the keys
\* that are present and valid are returned, and the extraction does not fail.
C4_WrongShapeIsPermissive ==
    (AnsweredJson /\ WrongShape(AnswerDoc) /\ PlainValues(AnswerDoc)) =>
        /\ ret.kind = "returned"
        /\ ret.result.raw = AnswerDoc
        /\ ret.result.error = IF "error" \in DOMAIN AnswerDoc.m
                              THEN AnswerDoc.m["error"] ELSE Absent
        /\ \A k \in LabelKeys :
              /\ k \notin DOMAIN AnswerDoc.m => ret.result[k] = Null
              /\ CandidateIsValid(AnswerDoc, k) => ret.result[k] = AnswerDoc.m[k]

\* C5: for a decoded candidate mapping without an 'error' key, whatever its four
\* label fields hold, the extraction result has no error set and every valid
\* candidate label is returned; rejected labels are dropped to null silently.
C5_RejectionIsSilent ==
    (AnsweredJson /\ AnswerDoc.t = "obj" /\ "error" \notin DOMAIN AnswerDoc.m) =>
        /\ ret.kind = "returned"
        /\ ret.result.error = Absent
        /\ \A k \in LabelKeys :
              ret.result[k] = IF CandidateIsValid(AnswerDoc, k)
                              THEN AnswerDoc.m[k] ELSE Null

\* C8: an extraction issues exactly one backend call, with the system prompt and
\* then the user utterance as its two messages, whatever the call's outcome;
\* nothing else issues a call.
C8_ExactlyOneCall ==
    IF pc = "done"
    THEN /\ Len(calls) = 1
         /\ Len(calls[1]) = 2
         /\ calls[1][1] = [role |-> "system", content |-> agent.system_prompt]
         /\ calls[1][2] = [role |-> "user", content |-> Piece(inp.user_input)]
    ELSE calls = <<>>

\* One call although the reply cannot be parsed.
C8_Witness ==
    /\ pc = "done"
    /\ inp.text = <<TXT>>
    /\ ret.result.error = Str("JSONDecodeError")
    /\ Len(calls) = 1

\* The backend was called by the last operation and the call failed.
BackendFailed == calls # <<>> /\ ~inp.backend.ok

C7_CredentialCheckedFirst ==
    ~api_key =>
        /\ ~llmBuilt
        /\ calls = <<>>
        /\ pc = "library" => ret = Threw("ValueError")
        /\ (pc = "recognize" /\ inp.user_input \notin {"", " "}) =>
              notice = "err_apikey" /\ ret = NoRet

C7_Witness ==
    /\ ~api_key
    /\ pc = "library"
    /\ ret.kind = "raised"
    /\ ret.exc = "ValueError"

\* The try block of the handler ran, so the variable pool was rendered.
PoolRendered == pc = "recognize" /\ notice \in {"ok", "err_exception"}

\* C10: the handler's renderings of the three vocabularies are those of the
\* default path (get_country_list, get_degree_list, get_major_list), for every
\* taxonomy, a major without sub-majors included.
C10_SameRenderings ==
    PoolRendered =>
        /\ pool.country_list = get_country_list(data_dicts.countries)
        /\ pool.degree_list = get_degree_list(data_dicts.degrees)
        /\ pool.major_list = get_major_list(data_dicts.majors)

\* A click with a credential and a non-blank utterance: the handler's try block ran.
ClickProceeds == pc = "recognize" /\ api_key /\ strip(inp.user_input) # ""

HasAllPlaceholders(text) ==
    \A p \in Placeholders :
        \E i \in 1..Len(text) : \E k \in 1..Len(text[i]) : text[i][k] = p

\* The last operation made one call whose system message is `prompt`.
SentSystem(prompt) ==
    /\ Len(calls) = 1
    /\ calls[1][1] = [role |-> "system", content |-> prompt]

\* C11: a custom template that contains the three vocabulary placeholders is
\* sent with the renderings substituted, one that contains none of them is sent
\* verbatim, and on both paths the prompt reaches the model: building it does
\* not fail.
C11_BothTemplatePaths ==
    ClickProceeds =>
        /\ HasAllPlaceholders(inp.template) =>
              /\ SentSystem(Format(inp.template, VariablePool(data_dicts)))
              /\ ~HasPlaceholder(calls[1][1].content)
        /\ (TruthyText(inp.template) /\ ~HasPlaceholder(inp.template)) =>
              SentSystem(inp.template)

\* last_result and last_input, with their presence in the session
Held(ss) == <<ss.has_result, ss.last_result, ss.last_input>>

\* C12: a click of the recognise button with an empty or whitespace-only
\* utterance creates no agent, makes no model call, and leaves the stored
\* last_result and last_input as they were.
C12_BlankInputRejected ==
    [][(pc' = "recognize" /\ strip(inp'.user_input) = "") =>
          /\ ~llmBuilt'
          /\ calls' = <<>>
          /\ ret' = NoRet
          /\ notice' = "warn_input"
          /\ Held(session') = Held(session)]_vars

\* A whitespace-only click after a result was stored: the result is still held.
C12_Witness ==
    /\ pc = "recognize"
    /\ inp.user_input = " "
    /\ api_key
    /\ notice = "warn_input"
    /\ session.has_result
    /\ session.last_input = "utterance"

\* The step is a recognise click during which extract_tags returned.
ExtractionReturned == pc' = "recognize" /\ ret'.kind = "returned"

\* C13: the session's last_result is exactly the result the most recent returned
\* extraction gave, nothing of an earlier result carried over or merged in, and
\* last_input is that extraction's utterance; a step without a returned
\* extraction leaves both as they were.
C13_HeldResultIsLatest ==
    [][IF ExtractionReturned
       THEN Held(session') = <<TRUE, ret'.result, inp'.user_input>>
       ELSE Held(session') = Held(session)]_vars

\* An all-null result replaces an earlier one whose country still shows in the
\* dropdown: none of the earlier labels is carried over.
C13_Witness ==
    /\ pc = "recognize"
    /\ ret.kind = "returned"
    /\ session.has_result
    /\ session.last_result = ret.result
    /\ session.last_result.country = Null
    /\ session.last_result.major = Null
    /\ session.ai_country = "UK"

\* C14: load_data_dicts returns None or a dictionary with all three of
\* 'countries', 'majors' and 'degrees', never one lacking a key; so when the
\* caller's non-empty check passes, all three vocabularies are there.
C14_AllThreeOrNone ==
    /\ pc \in {"loaded", "page"} =>
          loaded.none \/ loaded.keys = {"countries", "majors", "degrees"}
    /\ (pc = "page" /\ notice # "err_load") =>
          loaded.keys = {"countries", "majors", "degrees"}

\* The piece occurs in the text.
Mentions(text, piece) ==
    \E i \in 1..Len(text) : \E k \in 1..Len(text[i]) : text[i][k] = piece

\* C15: a recognise click that finds the saved custom prompt empty sends the
\* model the default prompt built from the taxonomy, its vocabularies rendered
\* in; no click sends an empty system prompt.
C15_EmptyPromptMeansDefault ==
    ClickProceeds =>
        /\ calls # <<>> => calls[1][1].content # EmptyText
        /\ inp.template = EmptyText =>
              /\ SentSystem(create_default_prompt(data_dicts))
              /\ \A c \in CountryNames : Mentions(calls[1][1].content, c)
              /\ \A d \in DegreeNames : Mentions(calls[1][1].content, d)
              /\ \A m \in MajorNamesOf : Mentions(calls[1][1].content, m)

\* The click right after an empty prompt was saved, answered by the model.
C15_Witness ==
    /\ pc = "recognize"
    /\ inp.template = EmptyText
    /\ Len(calls) = 1
    /\ Mentions(calls[1][1].content, "COUNTRY_HEAD")
    /\ ret.kind = "returned"
    /\ session.custom_prompt = DEFAULT_PROMPT_TEMPLATE

\* The result is the dict of extract's except branch: only there is
\* _full_ai_response None.
FromExceptBranch(result) == result.full = NoText

\* C16: extract returns a mapping and never raises, whatever the reply (any
\* text, JSON of any shape, label values of any type) and when the model call
\* fails; the mapping has the four labels and the two raw fields, and when an
\* exception was caught the four labels are null and error is set.
C16_ExtractIsTotal ==
    pc = "done" =>
        /\ ret.kind = "returned"
        /\ {"country", "degree", "major", "sub_major", "raw", "full"}
              \subseteq DOMAIN ret.result
        /\ ~inp.backend.ok => FromExceptBranch(ret.result)
        /\ FromExceptBranch(ret.result) =>
              /\ \A k \in LabelKeys : ret.result[k] = Null
              /\ IsDiagnostic(ret.result.error)
              /\ ret.result.raw = NoneDoc

\* A JSON list for an answer: the validator's exception is caught.
C16_Witness ==
    /\ pc = "done"
    /\ inp.text = <<Json(ListDoc)>>
    /\ ret.kind = "returned"
    /\ ret.result.error = Str("AttributeError")
    /\ ret.result.country = Null

Dropdowns(ss) == <<ss.ai_country, ss.ai_degree, ss.ai_major, ss.ai_sub_major>>

\* The batch update for `result`, applied in full between the sessions ss and st.
WholeUpdate(ss, st, result) ==
    /\ st.ai_country \in CountryNames
    /\ st.ai_degree \in DegreeNames
    /\ IF IsNameIn(result.major, MajorNamesOf)
       THEN /\ st.ai_major = result.major.s
            /\ st.ai_sub_major \in ChildNames(result.major.s)
            /\ st.ai_sub_major =
                  IF IsNameIn(result.sub_major, ChildNames(result.major.s))
                  THEN result.sub_major.s
                  ELSE Children(data_dicts.majors, result.major.s)[1]
       ELSE /\ st.ai_major = ss.ai_major
            /\ st.ai_sub_major = ss.ai_sub_major

\* C17: a recognise click either applies the whole dropdown update (a known
\* major sets ai_major and, with it, ai_sub_major to a child of that major: the
\* result's sub_major if it is one, else the first child; ai_country and
\* ai_degree are keys of their vocabularies) or fails without storing a new
\* last_result, for every taxonomy, a major without sub-majors included.
C17_DropdownUpdateWhole ==
    [][pc' = "recognize" =>
          \/ /\ ExtractionReturned
             /\ notice' = "ok"
             /\ WholeUpdate(session, session', ret'.result)
          \/ /\ notice' # "ok"
             /\ Held(session') = Held(session)
             /\ Dropdowns(session') = Dropdowns(session)]_vars

====
